---- MODULE Spec2Model ----
(***************************************************************************)
(* Model of api_server.py: the ModelWorker, its generate method, the HTTP  *)
(* handlers /generate, /generate-form, /generate-multiview-form, /send and *)
(* /status/{uid}, the result files under SAVE_DIR and model_semaphore.     *)
(*                                                                         *)
(* The three blocking handlers are "async def" functions that call         *)
(* worker.generate directly, so such a run occupies the event loop until   *)
(* it returns; /send starts one thread per request and returns at once.    *)
(***************************************************************************)
EXTENDS Integers, Sequences, FiniteSets, TLC

VARIABLES cfg, jobs, files, sem, loop, resp

vars == <<cfg, jobs, files, sem, loop, resp>>

(***************************************************************************)
(* Bounds of the model.                                                    *)
(***************************************************************************)
MaxJobs == 2
MaxLimit == 1
ChunkLen == 2

(***************************************************************************)
(* Program constants.                                                      *)
(***************************************************************************)
DefaultSeed == 1234
FormSeed == 1234
MvFormSeed == 12345
SingleOctree == 128
SingleSteps == 5
MvOctree == 380
MvSteps == 50
MvChunks == 20000
DefaultGuidance == 5
Pad == 64

Absent == -1
Views == <<"front", "left", "back">>
Quality == {"absent", "ok", "bad"}

(***************************************************************************)
(* base64: three bytes make four 6-bit characters, Pad stands for '='.     *)
(***************************************************************************)
RECURSIVE B64Encode(_)
B64Encode(b) ==
  IF Len(b) = 0 THEN <<>>
  ELSE IF Len(b) = 1 THEN <<b[1] \div 4, (b[1] % 4) * 16, Pad, Pad>>
  ELSE IF Len(b) = 2
    THEN <<b[1] \div 4, (b[1] % 4) * 16 + b[2] \div 16, (b[2] % 16) * 4, Pad>>
  ELSE <<b[1] \div 4, (b[1] % 4) * 16 + b[2] \div 16,
         (b[2] % 16) * 4 + b[3] \div 64, b[3] % 64>>
       \o B64Encode(SubSeq(b, 4, Len(b)))

RECURSIVE B64Decode(_)
B64Decode(s) ==
  IF Len(s) < 4 THEN <<>>
  ELSE LET b1 == s[1] * 4 + s[2] \div 16
           b2 == (s[2] % 16) * 16 + s[3] \div 4
           b3 == (s[3] % 4) * 64 + s[4]
       IN IF s[3] = Pad THEN <<b1>>
          ELSE IF s[4] = Pad THEN <<b1, b2>>
          ELSE <<b1, b2, b3>> \o B64Decode(SubSeq(s, 5, Len(s)))

(***************************************************************************)
(* The bytes mesh.export writes for the job uid: sequences of different    *)
(* lengths, so that every padding of base64 occurs.                        *)
(***************************************************************************)
ArtifactBytes(uid) == [i \in 1..(uid + 1) |-> (67 * uid + 101 * i) % 256]

(***************************************************************************)
(* Request payloads.  A numeric field the request omits is Absent; an      *)
(* image is "absent", "ok", or "bad" when load_image_from_base64 or the    *)
(* background remover raises on it.                                        *)
(***************************************************************************)
NoImages == [present |-> FALSE, front |-> "absent", left |-> "absent", back |-> "absent"]

ImagesValues ==
  {NoImages} \cup [present : {TRUE}, front : Quality, left : Quality, back : Quality]

EmptyPayload ==
  [multiview |-> FALSE, images |-> NoImages, image |-> "absent", text |-> FALSE,
   mesh |-> FALSE, texture |-> FALSE, type |-> "absent",
   seed |-> Absent, octree_resolution |-> Absent, num_inference_steps |-> Absent,
   num_chunks |-> Absent, guidance_scale |-> Absent]

AllViews(im) == im.present /\ \A i \in 1..3 : im[Views[i]] # "absent"

TypeOf(p) == IF p.type = "absent" THEN "glb" ELSE p.type

(***************************************************************************)
(* generate, lines 210-249: the branch taken and the error raised there.   *)
(* The view loop stops at the first view that is missing or fails to load. *)
(***************************************************************************)
RECURSIVE ViewScan(_, _)
ViewScan(im, i) ==
  IF i > 3 THEN "none"
  ELSE IF im[Views[i]] = "absent" THEN "ValueError"
  ELSE IF im[Views[i]] = "bad" THEN "ImageError"
  ELSE ViewScan(im, i + 1)

SelectModeFallback(p, c) ==
  IF p.multiview /\ AllViews(p.images)
    THEN IF ViewScan(p.images, 1) # "none"
           THEN [mode |-> "none", err |-> ViewScan(p.images, 1)]
         ELSE IF ~c.enable_multiview THEN [mode |-> "none", err |-> "ValueError"]
         ELSE [mode |-> "multiview", err |-> "none"]
  ELSE IF p.image # "absent"
    THEN IF p.image = "bad" THEN [mode |-> "image", err |-> "ImageError"]
         ELSE [mode |-> "image", err |-> "none"]
  ELSE IF p.text THEN [mode |-> "text", err |-> "AttributeError"]
  ELSE [mode |-> "none", err |-> "ValueError"]

SelectModeSkippingViews(p, c) ==
  IF p.multiview
    THEN IF ~p.images.present THEN [mode |-> "none", err |-> "ValueError"]
         ELSE IF \E i \in 1..3 : p.images[Views[i]] = "bad"
           THEN [mode |-> "none", err |-> "ImageError"]
         ELSE IF ~c.enable_multiview THEN [mode |-> "none", err |-> "ValueError"]
         ELSE [mode |-> "multiview", err |-> "none"]
  ELSE IF p.image # "absent"
    THEN IF p.image = "bad" THEN [mode |-> "image", err |-> "ImageError"]
         ELSE [mode |-> "image", err |-> "none"]
  ELSE IF p.text THEN [mode |-> "text", err |-> "AttributeError"]
  ELSE [mode |-> "none", err |-> "ValueError"]

SelectModeResult(p, c) ==
  IF p.multiview
    THEN IF ~p.images.present THEN [mode |-> "none", err |-> "ValueError"]
         ELSE IF ViewScan(p.images, 1) # "none"
           THEN [mode |-> "none", err |-> ViewScan(p.images, 1)]
         ELSE IF ~c.enable_multiview THEN [mode |-> "none", err |-> "ValueError"]
         ELSE [mode |-> "multiview", err |-> "none"]
  ELSE IF p.image # "absent"
    THEN IF p.image = "bad" THEN [mode |-> "image", err |-> "ImageError"]
         ELSE [mode |-> "image", err |-> "none"]
  ELSE IF p.text THEN [mode |-> "text", err |-> "AttributeError"]
  ELSE [mode |-> "none", err |-> "ValueError"]

(***************************************************************************)
(* generate, lines 251-267: the mesh field bypasses the pipeline; else the *)
(* keyword arguments of the pipeline call, params.get(key, default).       *)
(***************************************************************************)
NeverSkipsGeneration(p) == FALSE

SkipsGeneration(p) == p.mesh

Get(v, d) == IF v = Absent THEN d ELSE v

NoArgs ==
  [pipeline |-> "none", seed |-> Absent, octree_resolution |-> Absent,
   num_inference_steps |-> Absent, num_chunks |-> Absent,
   guidance_scale |-> Absent, mc_algo |-> "absent"]

PipelineArgsOneDefaultSet(p) ==
  [pipeline |-> IF p.multiview THEN "pipeline_mv" ELSE "pipeline",
   seed |-> Get(p.seed, DefaultSeed),
   octree_resolution |-> Get(p.octree_resolution, SingleOctree),
   num_inference_steps |-> Get(p.num_inference_steps, SingleSteps),
   num_chunks |-> p.num_chunks,
   guidance_scale |-> Get(p.guidance_scale, DefaultGuidance),
   mc_algo |-> "mc"]

PipelineArgs(p) ==
  IF p.multiview
    THEN [pipeline |-> "pipeline_mv", seed |-> Get(p.seed, DefaultSeed),
          octree_resolution |-> Get(p.octree_resolution, MvOctree),
          num_inference_steps |-> Get(p.num_inference_steps, MvSteps),
          num_chunks |-> Get(p.num_chunks, MvChunks),
          guidance_scale |-> Get(p.guidance_scale, DefaultGuidance),
          mc_algo |-> "absent"]
    ELSE [pipeline |-> "pipeline", seed |-> Get(p.seed, DefaultSeed),
          octree_resolution |-> Get(p.octree_resolution, SingleOctree),
          num_inference_steps |-> Get(p.num_inference_steps, SingleSteps),
          num_chunks |-> p.num_chunks,
          guidance_scale |-> Get(p.guidance_scale, DefaultGuidance),
          mc_algo |-> "mc"]

(***************************************************************************)
(* generate, line 274: the post-processing block runs when texture is set. *)
(***************************************************************************)
WantsTextureIfLoaded(p, c) == p.texture /\ c.enable_tex

WantsTexture(p, c) == p.texture

AfterMesh(p, c) == IF WantsTexture(p, c) THEN "floater" ELSE "export"

(***************************************************************************)
(* status, lines 494-502: looks for {uid}.glb and returns its bytes.       *)
(***************************************************************************)
FileName(uid, ext) == <<uid, ext>>

Exists(fs, name) == name \in DOMAIN fs

StatusResponse(uid, fs) ==
  IF ~Exists(fs, FileName(uid, "glb"))
    THEN [uid |-> uid, status |-> "processing", model_base64 |-> <<>>]
    ELSE [uid |-> uid, status |-> "completed",
          model_base64 |-> B64Encode(fs[FileName(uid, "glb")])]

NoResponse == [uid |-> 0, status |-> "none", model_base64 |-> <<>>]

(***************************************************************************)
(* get_queue_length, lines 194-199.                                        *)
(***************************************************************************)
QueueLength == cfg.limit - sem.value + Len(sem.waiters)

(***************************************************************************)
(* A job: one call of worker.generate(uid, params); uid is its index.      *)
(***************************************************************************)
NewJob(via, p, http) ==
  [via |-> via, params |-> p, pc |-> "spawned", mode |-> "none", err |-> "none",
   at |-> "none", mesh |-> <<>>, pipeCalls |-> 0, pipeArgs |-> NoArgs, http |-> http]

Uids == 1..Len(jobs)

RunningPcs ==
  {"select", "mesh", "floater", "degenerate", "reduce", "texture",
   "export", "create", "write", "return"}

Running(j) == jobs[j].pc \in RunningPcs

Ended(j) == jobs[j].pc \in {"done", "failed"}

Fail(j, e) == [jobs[j] EXCEPT !.pc = "failed", !.err = e, !.at = jobs[j].pc]

(***************************************************************************)
(* Startup, lines 505-524: the arguments, model_semaphore and the worker.  *)
(* The server of Init runs with both optional pipelines loaded, so that    *)
(* every handler can reach the export; InitGen below takes every           *)
(* combination of enable_tex and enable_multiview.                         *)
(***************************************************************************)
Configs ==
  [limit : {MaxLimit}, enable_tex : BOOLEAN, enable_multiview : BOOLEAN]

Init ==
  /\ cfg \in {c \in Configs : c.enable_tex /\ c.enable_multiview}
  /\ jobs = <<>>
  /\ files = <<>>
  /\ sem = [value |-> cfg.limit, waiters |-> <<>>]
  /\ loop = 0
  /\ resp = NoResponse

(***************************************************************************)
(* The handlers.  A handler runs on the event loop, which a blocking       *)
(* generate call occupies (loop = its uid) until the response is built.    *)
(***************************************************************************)
ConcPayloads ==
  {EmptyPayload,
   [EmptyPayload EXCEPT !.image = "ok"],
   [EmptyPayload EXCEPT !.image = "ok", !.mesh = TRUE, !.type = "obj"]}

FormPayload(texture) ==
  [EmptyPayload EXCEPT !.image = "ok", !.seed = FormSeed,
                       !.octree_resolution = SingleOctree,
                       !.num_inference_steps = SingleSteps,
                       !.guidance_scale = DefaultGuidance, !.texture = texture]

MvFormPayload(texture) ==
  [EmptyPayload EXCEPT !.multiview = TRUE,
                       !.images = [present |-> TRUE, front |-> "ok",
                                   left |-> "ok", back |-> "ok"],
                       !.seed = MvFormSeed, !.octree_resolution = MvOctree,
                       !.num_inference_steps = MvSteps, !.num_chunks = MvChunks,
                       !.guidance_scale = DefaultGuidance, !.texture = texture]

Call(via, p) ==
  /\ loop = 0
  /\ Len(jobs) < MaxJobs
  /\ jobs' = Append(jobs, NewJob(via, p, 0))
  /\ loop' = Len(jobs) + 1
  /\ UNCHANGED <<cfg, files, sem, resp>>

Generate(p) == Call("generate", p)

GenerateForm(texture) == Call("generate_form", FormPayload(texture))

GenerateMultiviewForm(texture) ==
  Call("generate_multiview_form", MvFormPayload(texture))

Send(p) ==
  /\ loop = 0
  /\ Len(jobs) < MaxJobs
  /\ jobs' = Append(jobs, NewJob("send", p, 200))
  /\ UNCHANGED <<cfg, files, sem, loop, resp>>

Respond(j) ==
  /\ loop = j
  /\ Ended(j)
  /\ jobs[j].http = 0
  /\ jobs' = [jobs EXCEPT ![j].http = IF jobs[j].pc = "done" THEN 200 ELSE 404]
  /\ loop' = 0
  /\ UNCHANGED <<cfg, files, sem, resp>>

Status(uid) ==
  /\ loop = 0
  /\ jobs[uid].via = "send"
  /\ resp' = StatusResponse(uid, files)
  /\ UNCHANGED <<cfg, jobs, files, sem, loop>>

(***************************************************************************)
(* ModelWorker.generate, one action per stage.  Calls into the pipelines,  *)
(* the mesh processors and the file system either return or raise.         *)
(***************************************************************************)
EnterAcquiring(j) ==
  /\ jobs[j].pc = "spawned"
  /\ sem.value > 0
  /\ jobs' = [jobs EXCEPT ![j].pc = "select"]
  /\ sem' = [sem EXCEPT !.value = sem.value - 1]
  /\ UNCHANGED <<cfg, files, loop, resp>>

Enter(j) ==
  /\ jobs[j].pc = "spawned"
  /\ jobs' = [jobs EXCEPT ![j].pc = "select"]
  /\ UNCHANGED <<cfg, files, sem, loop, resp>>

SelectMode(j) ==
  /\ jobs[j].pc = "select"
  /\ LET r == SelectModeResult(jobs[j].params, cfg)
     IN jobs' = [jobs EXCEPT ![j] =
          IF r.err # "none"
            THEN [Fail(j, r.err) EXCEPT !.mode = r.mode]
            ELSE [jobs[j] EXCEPT !.pc = "mesh", !.mode = r.mode]]
  /\ UNCHANGED <<cfg, files, sem, loop, resp>>

LoadMesh(j) ==
  /\ jobs[j].pc = "mesh"
  /\ SkipsGeneration(jobs[j].params)
  /\ \E ok \in BOOLEAN :
       jobs' = [jobs EXCEPT ![j] =
         IF ok THEN [jobs[j] EXCEPT !.pc = AfterMesh(jobs[j].params, cfg),
                                    !.mesh = <<"supplied">>]
         ELSE Fail(j, "MeshError")]
  /\ UNCHANGED <<cfg, files, sem, loop, resp>>

RunPipeline(j) ==
  /\ jobs[j].pc = "mesh"
  /\ ~SkipsGeneration(jobs[j].params)
  /\ \E ok \in BOOLEAN :
       jobs' = [jobs EXCEPT ![j] =
         [(IF ok THEN [jobs[j] EXCEPT !.pc = AfterMesh(jobs[j].params, cfg),
                                      !.mesh = <<"pipeline">>]
           ELSE Fail(j, "PipelineError"))
          EXCEPT !.pipeCalls = jobs[j].pipeCalls + 1,
                 !.pipeArgs = PipelineArgs(jobs[j].params)]]
  /\ UNCHANGED <<cfg, files, sem, loop, resp>>

PostStepOnSourceMesh(j, at, name, next) ==
  /\ jobs[j].pc = at
  /\ \E ok \in BOOLEAN :
       jobs' = [jobs EXCEPT ![j] =
         IF ok THEN [jobs[j] EXCEPT !.pc = next, !.mesh = <<jobs[j].mesh[1], name>>]
         ELSE Fail(j, "PostError")]
  /\ UNCHANGED <<cfg, files, sem, loop, resp>>

PostStep(j, at, name, next) ==
  /\ jobs[j].pc = at
  /\ \E ok \in BOOLEAN :
       jobs' = [jobs EXCEPT ![j] =
         IF ok THEN [jobs[j] EXCEPT !.pc = next, !.mesh = Append(jobs[j].mesh, name)]
         ELSE Fail(j, "PostError")]
  /\ UNCHANGED <<cfg, files, sem, loop, resp>>

RemoveFloaters(j) == PostStep(j, "floater", "floater", "degenerate")

RemoveDegenerateFaces(j) == PostStep(j, "degenerate", "degenerate", "reduce")

ReduceFaces(j) == PostStep(j, "reduce", "reduce", "texture")

Paint(j) ==
  /\ jobs[j].pc = "texture"
  /\ IF ~cfg.enable_tex
       THEN jobs' = [jobs EXCEPT ![j] = Fail(j, "AttributeError")]
       ELSE \E ok \in BOOLEAN :
              jobs' = [jobs EXCEPT ![j] =
                IF ok THEN [jobs[j] EXCEPT !.pc = "export",
                                           !.mesh = Append(jobs[j].mesh, "texture")]
                ELSE Fail(j, "PostError")]
  /\ UNCHANGED <<cfg, files, sem, loop, resp>>

ExportTemp(j) ==
  /\ jobs[j].pc = "export"
  /\ \E ok \in BOOLEAN :
       jobs' = [jobs EXCEPT ![j] =
         IF ok THEN [jobs[j] EXCEPT !.pc = "create"] ELSE Fail(j, "ExportError")]
  /\ UNCHANGED <<cfg, files, sem, loop, resp>>

SavePath(j) == FileName(j, TypeOf(jobs[j].params))

ExportCreate(j) ==
  /\ jobs[j].pc = "create"
  /\ \E ok \in BOOLEAN :
       IF ok
         THEN /\ jobs' = [jobs EXCEPT ![j].pc = "write"]
              /\ files' = (SavePath(j) :> <<>>) @@ files
         ELSE /\ jobs' = [jobs EXCEPT ![j] = Fail(j, "ExportError")]
              /\ UNCHANGED files
  /\ UNCHANGED <<cfg, sem, loop, resp>>

NextChunk(data, all) ==
  SubSeq(all, 1, IF Len(data) + ChunkLen < Len(all) THEN Len(data) + ChunkLen
                 ELSE Len(all))

ExportWrite(j) ==
  /\ jobs[j].pc = "write"
  /\ \E ok \in BOOLEAN :
       IF ok
         THEN LET data == NextChunk(files[SavePath(j)], ArtifactBytes(j))
              IN /\ files' = [files EXCEPT ![SavePath(j)] = data]
                 /\ jobs' = [jobs EXCEPT ![j].pc =
                      IF data = ArtifactBytes(j) THEN "return" ELSE "write"]
         ELSE /\ jobs' = [jobs EXCEPT ![j] = Fail(j, "ExportError")]
              /\ UNCHANGED files
  /\ UNCHANGED <<cfg, sem, loop, resp>>

Return(j) ==
  /\ jobs[j].pc = "return"
  /\ jobs' = [jobs EXCEPT ![j].pc = "done"]
  /\ UNCHANGED <<cfg, files, sem, loop, resp>>

Next ==
  \/ \E p \in ConcPayloads : Generate(p)
  \/ \E t \in BOOLEAN : GenerateForm(t)
  \/ \E t \in BOOLEAN : GenerateMultiviewForm(t)
  \/ \E p \in ConcPayloads : Send(p)
  \/ \E j \in Uids : Respond(j)
  \/ \E u \in Uids : Status(u)
  \/ \E j \in Uids : Enter(j)
  \/ \E j \in Uids : SelectMode(j)
  \/ \E j \in Uids : LoadMesh(j)
  \/ \E j \in Uids : RunPipeline(j)
  \/ \E j \in Uids : RemoveFloaters(j)
  \/ \E j \in Uids : RemoveDegenerateFaces(j)
  \/ \E j \in Uids : ReduceFaces(j)
  \/ \E j \in Uids : Paint(j)
  \/ \E j \in Uids : ExportTemp(j)
  \/ \E j \in Uids : ExportCreate(j)
  \/ \E j \in Uids : ExportWrite(j)
  \/ \E j \in Uids : Return(j)

Spec == Init /\ [][Next]_vars

(***************************************************************************)
(* One call of generate through /generate, for every payload and worker    *)
(* configuration: the request fields present or absent in any combination, *)
(* numeric fields either all omitted, one supplied, or all supplied.       *)
(***************************************************************************)
Supplied ==
  [seed |-> 7, octree_resolution |-> 256, num_inference_steps |-> 30,
   num_chunks |-> 8000, guidance_scale |-> 7]

NumericFields ==
  {"seed", "octree_resolution", "num_inference_steps", "num_chunks", "guidance_scale"}

SuppliedSets == {{}} \cup {{f} : f \in NumericFields} \cup {NumericFields}

NumericValue(f, fs) == IF f \in fs THEN Supplied[f] ELSE Absent

GenPayloads ==
  {[multiview |-> mv, images |-> im, image |-> img, text |-> txt, mesh |-> msh,
    texture |-> tex, type |-> ty,
    seed |-> NumericValue("seed", fs),
    octree_resolution |-> NumericValue("octree_resolution", fs),
    num_inference_steps |-> NumericValue("num_inference_steps", fs),
    num_chunks |-> NumericValue("num_chunks", fs),
    guidance_scale |-> NumericValue("guidance_scale", fs)] :
     mv \in BOOLEAN, im \in ImagesValues, img \in Quality, txt \in BOOLEAN,
     msh \in BOOLEAN, tex \in BOOLEAN, ty \in {"absent", "obj"},
     fs \in SuppliedSets}

InitGen ==
  /\ cfg \in Configs
  /\ \E p \in GenPayloads : jobs = <<NewJob("generate", p, 0)>>
  /\ files = <<>>
  /\ sem = [value |-> cfg.limit, waiters |-> <<>>]
  /\ loop = 1
  /\ resp = NoResponse

NextGen ==
  \/ \E j \in Uids : Enter(j)
  \/ \E j \in Uids : SelectMode(j)
  \/ \E j \in Uids : LoadMesh(j)
  \/ \E j \in Uids : RunPipeline(j)
  \/ \E j \in Uids : RemoveFloaters(j)
  \/ \E j \in Uids : RemoveDegenerateFaces(j)
  \/ \E j \in Uids : ReduceFaces(j)
  \/ \E j \in Uids : Paint(j)
  \/ \E j \in Uids : ExportTemp(j)
  \/ \E j \in Uids : ExportCreate(j)
  \/ \E j \in Uids : ExportWrite(j)
  \/ \E j \in Uids : Return(j)
  \/ \E j \in Uids : Respond(j)

SpecGen == InitGen /\ [][NextGen]_vars

(***************************************************************************)
(* C1: at any time, the number of generate runs executing is at most       *)
(* limit_model_concurrency, whatever the handlers the jobs came through.   *)
(***************************************************************************)
RunningJobs == {j \in Uids : Running(j)}

C1_AtMostLimitRuns == Cardinality(RunningJobs) <= cfg.limit

C5_StatusTracksArtifact ==
  [][\A u \in Uids :
       Status(u) => resp'.status = IF Exists(files, SavePath(u)) THEN "completed"
                                   ELSE "processing"]_vars

(***************************************************************************)
(* C6: whenever a status request answers "completed", decoding its         *)
(* model_base64 gives the complete bytes the job writes to its file.       *)
(***************************************************************************)
C6_CompletedIsWholeFile ==
  resp.status = "completed" =>
    B64Decode(resp.model_base64) = ArtifactBytes(resp.uid)

(***************************************************************************)
(* C7: a job sent through /send is answered with HTTP 200 whatever becomes *)
(* of it, and once its generate call has raised, every later status        *)
(* request for its uid answers "processing".                               *)
(***************************************************************************)
C7_FailedSendStaysProcessing ==
  [][\A u \in Uids :
       /\ jobs[u].via = "send" => jobs[u].http = 200
       /\ (jobs[u].via = "send" /\ jobs[u].pc = "failed" /\ Status(u))
            => resp'.status = "processing"]_vars

(***************************************************************************)
(* C3 as stated: a payload with the multiview flag set, no complete images *)
(* field and a loadable image field is handled as a single-image request.  *)
(***************************************************************************)
Selected(j) == jobs[j].pc \notin {"spawned", "select"}

FailedAt(j, at, err) ==
  jobs[j].pc = "failed" /\ jobs[j].at = at /\ jobs[j].err = err

NoBadView(im) == \A i \in 1..3 : im[Views[i]] # "bad"

C3_FlagWithoutImagesIsSingleImage ==
  \A j \in Uids :
    LET p == jobs[j].params
    IN (Selected(j) /\ p.multiview /\ ~AllViews(p.images) /\ p.image = "ok")
         => jobs[j].mode = "image" /\ ~FailedAt(j, "select", jobs[j].err)

(***************************************************************************)
(* C3, amended: the multiview flag decides first.  With the flag set the   *)
(* request is never handled as single-image or text: it is multiview when  *)
(* images holds front, left and back, all of them load, and the multiview  *)
(* pipeline is loaded, and it fails with ValueError when a view is missing *)
(* or that pipeline is not loaded.  With the flag unset it is single-image *)
(* when image is present; otherwise the text branch when text is present,  *)
(* which raises AttributeError as the worker has no pipeline_t2i;          *)
(* otherwise it fails with ValueError.                                     *)
(***************************************************************************)
C3_ModeCascade ==
  \A j \in Uids :
    LET p == jobs[j].params
        m == jobs[j].mode
    IN Selected(j) =>
         IF p.multiview
           THEN /\ m \in {"multiview", "none"}
                /\ (m = "multiview") <=>
                     (AllViews(p.images) /\ NoBadView(p.images) /\ cfg.enable_multiview)
                /\ (NoBadView(p.images) /\ (~AllViews(p.images) \/ ~cfg.enable_multiview))
                     => FailedAt(j, "select", "ValueError")
           ELSE IF p.image # "absent"
             THEN m = "image" /\ (p.image = "ok" => jobs[j].at # "select")
           ELSE IF p.text
             THEN m = "text" /\ FailedAt(j, "select", "AttributeError")
           ELSE m = "none" /\ FailedAt(j, "select", "ValueError")

C3_Witness ==
  \E j \in Uids :
    /\ jobs[j].params.multiview /\ ~jobs[j].params.images.present
    /\ jobs[j].params.image = "ok"
    /\ FailedAt(j, "select", "ValueError")
    /\ jobs[j].mode = "none"

(***************************************************************************)
(* C4 as stated: a request with mesh and texture true and no image, text   *)
(* or images field does not fail on its input and never runs the shape     *)
(* pipeline.                                                               *)
(***************************************************************************)
MeshOnly(p) ==
  p.mesh /\ p.texture /\ p.image = "absent" /\ ~p.text /\ ~p.images.present

C4_MeshOnlyIsAccepted ==
  \A j \in Uids :
    MeshOnly(jobs[j].params) =>
      /\ jobs[j].pipeCalls = 0
      /\ Selected(j) => jobs[j].at # "select"

(***************************************************************************)
(* C4, amended: whenever mesh is present the shape pipeline is never       *)
(* invoked, and the mesh that reaches the post-processing stage is the     *)
(* supplied one; but the request must still pass mode selection: with mesh *)
(* and texture true and no image, text or images field, generate fails     *)
(* with ValueError before the mesh is loaded.                              *)
(***************************************************************************)
PostPcs == {"floater", "degenerate", "reduce", "texture"}

C4_MeshBypass ==
  \A j \in Uids :
    LET p == jobs[j].params
    IN p.mesh =>
         /\ jobs[j].pipeCalls = 0
         /\ jobs[j].pipeArgs = NoArgs
         /\ jobs[j].mesh # <<>> => jobs[j].mesh[1] = "supplied"
         /\ (p.texture /\ jobs[j].pc = "mesh")
              => ENABLED LoadMesh(j) /\ ~ENABLED RunPipeline(j)
         /\ (MeshOnly(p) /\ Selected(j))
              => FailedAt(j, "select", "ValueError") /\ jobs[j].mesh = <<>>

C4_Witness ==
  \E j \in Uids :
    /\ jobs[j].params.mesh /\ jobs[j].params.texture
    /\ jobs[j].params.image = "ok" /\ ~jobs[j].params.multiview
    /\ jobs[j].pc = "degenerate"
    /\ jobs[j].mesh = <<"supplied", "floater">>
    /\ jobs[j].pipeCalls = 0

(***************************************************************************)
(* C8: with texture true on a worker started without the texture pipeline, *)
(* generate never returns: it ends by raising, at the latest with the      *)
(* AttributeError of the missing pipeline_tex at the texturing step, and   *)
(* no result file of that uid exists at any time.                          *)
(***************************************************************************)
ExportPcs == {"export", "create", "write", "return", "done"}

C8_NoUntexturedArtifact ==
  \A j \in Uids :
    (jobs[j].params.texture /\ ~cfg.enable_tex) =>
      /\ jobs[j].pc \notin ExportPcs
      /\ jobs[j].http # 200
      /\ \A ext \in {"glb", "obj"} : ~Exists(files, FileName(j, ext))
      /\ Ended(j) => jobs[j].pc = "failed"
      /\ (jobs[j].pc = "failed" /\ jobs[j].at = "texture")
           => jobs[j].err = "AttributeError"
      /\ jobs[j].pc = "texture" => ENABLED Paint(j)

C8_Witness ==
  \E j \in Uids :
    /\ jobs[j].params.texture /\ ~cfg.enable_tex
    /\ FailedAt(j, "texture", "AttributeError")
    /\ jobs[j].mesh = <<"pipeline", "floater", "degenerate", "reduce">>
    /\ jobs[j].http = 404
    /\ files = <<>>

(***************************************************************************)
(* C9 as stated: a request with the multiview flag set whose images lacks  *)
(* a view fails with ValueError and never runs the shape pipeline.         *)
(***************************************************************************)
C9_MissingViewIsValueError ==
  \A j \in Uids :
    LET p == jobs[j].params
    IN (p.multiview /\ ~AllViews(p.images)) =>
         /\ jobs[j].pipeCalls = 0
         /\ Selected(j) => FailedAt(j, "select", "ValueError")

(***************************************************************************)
(* C9, amended: such a request always fails in mode selection and never    *)
(* runs the shape pipeline; the error is ValueError unless a view that     *)
(* comes before the first missing one, in the order front, left, back,     *)
(* fails to load, and then it is the error of that load.                   *)
(***************************************************************************)
BadBeforeMissing(im) ==
  /\ im.present
  /\ \E i \in 1..3 : /\ im[Views[i]] = "bad"
                     /\ \A k \in 1..(i - 1) : im[Views[k]] # "absent"

C9_MissingViewFails ==
  \A j \in Uids :
    LET p == jobs[j].params
    IN (p.multiview /\ ~AllViews(p.images)) =>
         /\ jobs[j].pipeCalls = 0
         /\ jobs[j].mesh = <<>>
         /\ Selected(j) =>
              FailedAt(j, "select",
                       IF BadBeforeMissing(p.images) THEN "ImageError" ELSE "ValueError")

C9_Witness ==
  \E j \in Uids :
    /\ jobs[j].params.multiview
    /\ jobs[j].params.images =
         [present |-> TRUE, front |-> "ok", left |-> "ok", back |-> "absent"]
    /\ cfg.enable_multiview
    /\ FailedAt(j, "select", "ValueError")
    /\ jobs[j].pipeCalls = 0
    /\ jobs[j].http = 404

(***************************************************************************)
(* C10: the arguments of every shape-pipeline call are the request's value *)
(* for each field it supplies and, for each field it omits, the default of *)
(* the mode: 128 and 5 for single-image, 380, 50 and 20000 for multiview,  *)
(* guidance_scale 5.0 and seed 1234 for both.  (A text request raises      *)
(* before it reaches the pipeline.)                                        *)
(***************************************************************************)
OrElse(v, d) == IF v # Absent THEN v ELSE d

C10_PipelineArguments ==
  \A j \in Uids :
    LET p == jobs[j].params
        a == jobs[j].pipeArgs
        mv == jobs[j].mode = "multiview"
    IN jobs[j].pipeCalls > 0 =>
         /\ jobs[j].pipeCalls = 1
         /\ jobs[j].mode \in {"image", "multiview"}
         /\ a.pipeline = IF mv THEN "pipeline_mv" ELSE "pipeline"
         /\ a.octree_resolution = OrElse(p.octree_resolution, IF mv THEN 380 ELSE 128)
         /\ a.num_inference_steps = OrElse(p.num_inference_steps, IF mv THEN 50 ELSE 5)
         /\ mv => a.num_chunks = OrElse(p.num_chunks, 20000)
         /\ ~mv => a.num_chunks = p.num_chunks
         /\ a.guidance_scale = OrElse(p.guidance_scale, 5)
         /\ a.seed = OrElse(p.seed, 1234)

C10_Witness ==
  \E j \in Uids :
    /\ jobs[j].mode = "multiview"
    /\ jobs[j].params.octree_resolution = Absent
    /\ jobs[j].params.num_inference_steps = Supplied.num_inference_steps
    /\ jobs[j].params.num_chunks = Absent
    /\ jobs[j].pipeCalls = 1
    /\ jobs[j].pipeArgs.octree_resolution = 380
    /\ jobs[j].pipeArgs.num_inference_steps = 30
    /\ jobs[j].pipeArgs.num_chunks = 20000
    /\ jobs[j].pipeArgs.guidance_scale = 5
    /\ jobs[j].pipeArgs.seed = 1234
    /\ jobs[j].pc = "done"

(***************************************************************************)
(* C11: in a run with texture set, floater removal, degenerate-face        *)
(* removal, face reduction and texturing are applied in that order, each   *)
(* to the mesh the previous one returned, starting from the mesh that was  *)
(* loaded or generated; none is applied twice; the result file is created  *)
(* only after all four, and the mesh exported is their result.  In a run   *)
(* without texture none of them is applied.                                *)
(***************************************************************************)
PostOrder == <<"floater", "degenerate", "reduce", "texture">>

StepsDone(j) == IF jobs[j].mesh = <<>> THEN 0 ELSE Len(jobs[j].mesh) - 1

StepIndex(pc) == CHOOSE i \in 1..4 : PostOrder[i] = pc

HasFile(j) == \E ext \in {"glb", "obj"} : Exists(files, FileName(j, ext))

C11_PostProcessingOrder ==
  \A j \in Uids :
    LET m == jobs[j].mesh
        pc == jobs[j].pc
    IN /\ m # <<>> =>
            /\ m[1] \in {"supplied", "pipeline"}
            /\ StepsDone(j) <= 4
            /\ \A i \in 1..StepsDone(j) : m[i + 1] = PostOrder[i]
       /\ ~jobs[j].params.texture => StepsDone(j) = 0
       /\ jobs[j].params.texture =>
            /\ pc \in PostPcs => m # <<>> /\ StepsDone(j) = StepIndex(pc) - 1
            /\ (pc = "failed" /\ jobs[j].at \in PostPcs)
                 => m # <<>> /\ StepsDone(j) = StepIndex(jobs[j].at) - 1
            /\ pc \in ExportPcs => StepsDone(j) = 4
            /\ HasFile(j) => StepsDone(j) = 4
       /\ (pc \in {"spawned", "select", "mesh"}) => m = <<>> /\ ~HasFile(j)

C11_Witness ==
  \E j \in Uids :
    /\ jobs[j].params.texture
    /\ jobs[j].pc = "done"
    /\ jobs[j].mesh = <<"pipeline", "floater", "degenerate", "reduce", "texture">>
    /\ jobs[j].pipeCalls = 1
    /\ files = (SavePath(j) :> ArtifactBytes(j))
====
